---- MODULE Spec2Model ----
(***************************************************************************)
(* Presence registry and delivery/read state of the chat server            *)
(* (src/server/socket/socketManager.ts, src/server/routes/chats.ts).       *)
(*                                                                         *)
(* The server is one Node.js process: every handler runs atomically from   *)
(* one `await pool.query` to the next, and handlers of different sockets   *)
(* interleave at those awaits.  A handler that is suspended between two    *)
(* queries is a record in the bag `tasks`; a step of the model is one      *)
(* query together with the synchronous code that follows it.               *)
(*                                                                         *)
(* Queries that read only tables no handler of this model writes           *)
(* (direct_chats, group_chats, group_chat_participants, the chat_id of a   *)
(* message) are folded into the step of the query that follows them.       *)
(***************************************************************************)
EXTENDS Integers, Sequences, FiniteSets, Bags, TLC

\* ------------------------------------------------------------------ bounds
MaxSockets == 2      \* sockets connected at the same time (SpecPresence)
MaxClients == 1      \* sockets connected at the same time (the other specifications)
MaxTasks == 2        \* handlers suspended at an await at the same time (Spec)
MaxMsgs == 1         \* messages ever posted (Spec, SpecSerial)
MaxReceipts == 1     \* receipt events and mark-read requests ever taken (Spec)
SerialReceipts == 2  \* the same, when handlers run one at a time (SpecSerial)
SweepMsgs == 2       \* messages ever posted (SpecSweep)
EmitCap == 2         \* the bags of emitted events and of UPDATEs count up to this
MaxPublished == 3    \* room events whose reception is recorded
MaxFailures == 1     \* UPDATEs that are rejected (SpecFail)
RoomReceipts == 1    \* join_chat requests taken (SpecRooms)
MaxChats == 3        \* direct_chats rows inserted by POST /chats (SpecChats)
MaxSends == 1        \* sendMessage thunks dispatched by the client (SpecClient)
MaxCreated == 2      \* sockets created by the client's SocketService (SpecClient)
MaxStore == 2        \* messages the client's store holds per chat (SpecClient)
LiveReceipts == 2    \* join_chat and mark-read requests taken (SpecLive)

\* the bounds of a specification: connected sockets, handlers in flight,
\* messages, receipt events
Bounds(nSockets, nTasks, nMsgs, nReceipts) ==
    [sockets |-> nSockets, tasks |-> nTasks, msgs |-> nMsgs, receipts |-> nReceipts]

\* ------------------------------------------------------- persisted topology
Users == {"u1", "u2", "u3"}

\* direct_chats rows: id -> <<user1_id, user2_id>>
direct_chats == [d1 |-> <<"u1", "u2">>]

\* group_chat_participants rows: group_chat_id -> set of user_id
group_chat_participants == [g1 |-> {"u1", "u2", "u3"}]

DirectChatIds == DOMAIN direct_chats
GroupChatIds == DOMAIN group_chat_participants
ChatIds == DirectChatIds \cup GroupChatIds

\* data.chatId is whatever the client sends: the id of a chat, or an id that
\* matches no row of direct_chats or group_chats
UnknownChat == "x9"

\* message ids are 1, 2, ... in the order of the INSERTs; this one names no row
NoMessage == 0
RoomIds == ChatIds \cup {UnknownChat}

VARIABLES
    sockets,          \* the connected sockets: socket.id -> [user]
    connectedUsers,   \* Map<userId, ConnectedUser>: userId -> [userId, socketId]
    rooms,            \* socket.id -> set of room ids the socket has joined
    direct_messages,  \* id -> [sender_id, direct_chat_id, delivered, read]
    group_messages,   \* id -> [sender_id, group_chat_id, delivered_to, read_by]
    tasks,            \* bag of handlers suspended at an await
    emitted,          \* bag of the room events emitted so far
    written,          \* bag of the UPDATEs of message rows executed so far
    broadcast,        \* what the last connection / disconnect handler broadcast
    receipts,         \* number of receipt events and mark-read requests taken so far
    net,              \* what the sockets have received from their rooms:
                      \* [count: room events published, inbox: socket.id -> Seq]
    failed,           \* the UPDATEs that were rejected
    handshake,        \* the last handshake: its token and its outcome
    audience,         \* the sockets the last socket.broadcast.emit was sent to
    created,          \* the direct_chats rows inserted by POST /chats
    service,          \* the client's SocketService: the socket it holds and
                      \* the sockets it has created
    thunks,           \* the client's sendMessage thunks
    store             \* the client's message store

\* the state of the server's other routes and of the client
elsewhere == <<created, service, thunks, store>>

vars == <<sockets, connectedUsers, rooms, direct_messages, group_messages,
          tasks, emitted, written, broadcast, receipts, net, failed, handshake,
          audience, created, service, thunks, store>>

\* ------------------------------------------------------------------ helpers
\* socket.io gives every connection an id of its own; an id is free again once
\* its socket has disconnected (nothing keeps the id of a closed socket: the
\* disconnect handler deletes the only place that stores one)
SocketIds == 1..MaxSockets

LiveSockets(u) == {s \in DOMAIN sockets : sockets[s].user = u}

\* a bag with one more copy of e, counted up to EmitCap
Count(bag, e) == IF CopiesIn(e, bag) < EmitCap THEN bag (+) SetToBag({e}) ELSE bag

RECURSIVE CountAll(_, _)
CountAll(bag, es) ==
    IF es = {} THEN bag
    ELSE LET e == CHOOSE x \in es : TRUE
         IN  CountAll(Count(bag, e), es \ {e})

isUserOnline(userId) == userId \in DOMAIN connectedUsers

\* ---------------------------------------------------------------- task shape
\* kind: the handler; user: the user it acts for; msg: data.messageId;
\* chats: the chats still to visit; pc: the query it waits for; todo: the
\* selected rows still to update; snap: the arrays read by the SELECT.
\* socket: the socket whose handler it is (0: none, or the socket is gone).
\* pre is history of a connection sweep: the direct messages that were
\* undelivered for the user when it connected.  rejoin is history of a
\* join_chat: the socket was in the room already.  other: participants[0] of
\* a POST /chats.
NoTask ==
    [kind |-> "none", user |-> "", msg |-> 0, chats |-> <<>>,
     pc |-> "select", todo |-> {}, snap |-> <<>>, pre |-> {},
     socket |-> 0, rejoin |-> FALSE, other |-> ""]

RECURSIVE SetToSeq(_)
SetToSeq(S) ==
    IF S = {} THEN <<>>
    ELSE LET x == CHOOSE y \in S : TRUE IN <<x>> \o SetToSeq(S \ {x})

\* allChats = [...directChats, ...groupChats]
allChats(userId) ==
    SetToSeq({c \in DirectChatIds : userId \in {direct_chats[c][1], direct_chats[c][2]}})
    \o SetToSeq({c \in GroupChatIds : userId \in group_chat_participants[c]})

\* the direct messages of the other participant that are not delivered
Undelivered(userId) ==
    {m \in DOMAIN direct_messages :
        /\ direct_messages[m].sender_id # userId
        /\ userId \in {direct_chats[direct_messages[m].direct_chat_id][1],
                       direct_chats[direct_messages[m].direct_chat_id][2]}
        /\ ~direct_messages[m].delivered}

\* the sweep as io.on('connection') starts it: the two SELECTs of the user's chats
markAllMessagesAsDeliveredForUser(userId) ==
    [NoTask EXCEPT !.kind = "connection", !.user = userId,
                   !.chats = allChats(userId), !.pre = Undelivered(userId)]

NoBroadcast == [event |-> "none", userId |-> ""]

\* ---------------------------------------------------------------- handshake
\* socket.handshake.auth.token: absent, or a JWT that names a user id and whose
\* signature and expiry jwt.verify accepts ("good") or rejects
NoToken == [userId |-> "", sig |-> "missing"]

Token(u) == [userId |-> u, sig |-> "good"]

NoHandshake == [token |-> NoToken, outcome |-> "none"]

\* a user id that names no row of users
UnknownUser == "u9"

Tokens == {NoToken} \cup [userId : Users \cup {UnknownUser}, sig : {"good", "bad"}]

\* -------------------------------------------------------- socket.broadcast
\* a faulty broadcast that goes to the sending socket too: C23 must not hold of
\* a server that uses it
BroadcastToAll(all, sender) == all

\* socket.broadcast.emit(event) of socket `sender`: the event goes to every
\* socket connected to the server, in whatever rooms, the sender excepted
BroadcastTo(all, sender) == all \ {sender}

\* ------------------------------------------------------------------- rooms
\* a faulty emit that goes to every socket, whatever its rooms: C12 must not
\* hold of a server that uses it
DeliverToAll(n, sender, room, event, m) ==
    IF n.count >= MaxPublished THEN n
    ELSE [count |-> n.count + 1,
          inbox |-> [s \in DOMAIN n.inbox |->
                        IF s # sender
                        THEN Append(n.inbox[s],
                                    [seq |-> n.count + 1, room |-> room,
                                     event |-> event, msg |-> m])
                        ELSE n.inbox[s]]]

\* a faulty emit that overtakes what was sent before: C13 must not hold of a
\* server that uses it
DeliverFirst(n, sender, room, event, m) ==
    IF n.count >= MaxPublished THEN n
    ELSE [count |-> n.count + 1,
          inbox |-> [s \in DOMAIN n.inbox |->
                        IF room \in rooms[s] /\ s # sender
                        THEN <<[seq |-> n.count + 1, room |-> room,
                                event |-> event, msg |-> m]>> \o n.inbox[s]
                        ELSE n.inbox[s]]]

\* socket.to(room).emit(event) of socket `sender`, or globalIo.to(room).emit(event)
\* with sender = 0: the event goes to every socket that is in the room now,
\* the sender excepted, behind what the socket was sent before.  n is net.
Deliver(n, sender, room, event, m) ==
    IF n.count >= MaxPublished THEN n
    ELSE [count |-> n.count + 1,
          inbox |-> [s \in DOMAIN n.inbox |->
                        IF room \in rooms[s] /\ s # sender
                        THEN Append(n.inbox[s],
                                    [seq |-> n.count + 1, room |-> room,
                                     event |-> event, msg |-> m])
                        ELSE n.inbox[s]]]

\* one emit per row, in the order of the rows
RECURSIVE DeliverAll(_, _, _, _, _)
DeliverAll(n, sender, room, event, ms) ==
    IF ms = <<>> THEN n
    ELSE DeliverAll(Deliver(n, sender, room, event, Head(ms)),
                    sender, room, event, Tail(ms))

\* ------------------------------------------------------------------- client
\* One client (a browser tab) of the user Me.  The server is its environment:
\* the responses to its requests and the events on its socket are inputs.
Me == "u1"
Other == "u2"

\* the message a sendMessage thunk creates has the number of the thunk as its
\* id; the messages of other users have the ids after those
Incoming == {MaxSends + 1}

\* messageSlice's initialState, with the chat that is open (state.chat.currentChat),
\* the requests in flight (fetching, marking) and, as history, the messages
\* for which a message:read was received or which the server returned as read
initialState ==
    [currentChat |-> "", messages |-> <<>>, fetching |-> {}, marking |-> {}, seen |-> {}]

serverVars ==
    <<sockets, connectedUsers, rooms, direct_messages, group_messages, tasks, emitted,
      written, broadcast, receipts, net, failed, handshake, audience, created>>

\* state.messages[chatId] || []
chatMessages(chatId) ==
    IF chatId \in DOMAIN store.messages THEN store.messages[chatId] ELSE <<>>

\* state.messages[chatId].push(message)
Push(messages, chatId, message) ==
    [c \in DOMAIN messages \cup {chatId} |->
        IF c = chatId
        THEN Append(IF c \in DOMAIN messages THEN messages[c] ELSE <<>>, message)
        ELSE messages[c]]

\* ------------------------------------------------------------------- initial
Init ==
    /\ sockets = <<>>
    /\ connectedUsers = <<>>
    /\ rooms = <<>>
    /\ direct_messages = <<>>
    /\ group_messages = <<>>
    /\ tasks = EmptyBag
    /\ emitted = EmptyBag
    /\ written = EmptyBag
    /\ broadcast = NoBroadcast
    /\ receipts = 0
    /\ net = [count |-> 0, inbox |-> <<>>]
    /\ failed = {}
    /\ handshake = NoHandshake
    /\ audience = {}
    /\ created = {}
    /\ service = [socket |-> 0, made |-> <<>>]
    /\ thunks = <<>>
    /\ store = initialState

\* ------------------------------------------------------- io.on('connection')
\* The handshake has authenticated the socket as user u.
Connect(u, b) ==
    /\ Cardinality(DOMAIN sockets) < b.sockets
    /\ BagCardinality(tasks) < b.tasks
    /\ LET id == CHOOSE i \in SocketIds \ DOMAIN sockets :
                    \A j \in SocketIds \ DOMAIN sockets : i <= j
       IN
        /\ sockets' = [s \in DOMAIN sockets \cup {id} |->
                          IF s = id THEN [user |-> u] ELSE sockets[s]]
        /\ connectedUsers' =
              [x \in DOMAIN connectedUsers \cup {u} |->
                  IF x = u THEN [userId |-> u, socketId |-> id] ELSE connectedUsers[x]]
        /\ rooms' = [s \in DOMAIN rooms \cup {id} |-> IF s = id THEN {} ELSE rooms[s]]
        /\ broadcast' = [event |-> "user:online", userId |-> u]
        /\ tasks' = tasks (+) SetToBag({markAllMessagesAsDeliveredForUser(u)})
        /\ net' = [net EXCEPT !.inbox = (id :> <<>>) @@ @]
        /\ audience' = BroadcastTo(DOMAIN sockets \cup {id}, id)
    /\ handshake' = [token |-> Token(u), outcome |-> "accepted"]
    /\ UNCHANGED <<direct_messages, group_messages, emitted, written, receipts, failed,
                   elsewhere>>

\* --------------------------------------------------------------- io.use
\* a faulty middleware that does not look the user up: C16 must not hold of it
AuthenticatedUnchecked(token, dbOk) ==
    /\ token # NoToken
    /\ token.sig = "good"

\* the middleware calls next() without an error: there is a token, jwt.verify
\* does not throw, the SELECT of the user is not rejected and returns a row
Authenticated(token, dbOk) ==
    /\ token # NoToken
    /\ token.sig = "good"
    /\ dbOk
    /\ token.userId \in Users

\* One handshake.  next(new Error(...)) refuses the connection: socket.io does
\* not fire 'connection' for it.  The SELECT reads a table no handler writes.
Handshake(token, dbOk, b) ==
    IF Authenticated(token, dbOk)
    THEN Connect(token.userId, b)
    ELSE /\ handshake' = [token |-> token, outcome |-> "refused"]
         /\ UNCHANGED <<sockets, connectedUsers, rooms, direct_messages, group_messages,
                        tasks, emitted, written, broadcast, receipts, net, failed,
                        audience, elsewhere>>

\* ------------------------------------------------- socket.on('disconnect')
\* a faulty handler that closes the socket and leaves the registry as it is:
\* C25 must not hold of it
DisconnectKeepsEntry(s) ==
    /\ s \in DOMAIN sockets
    /\ sockets' = [x \in DOMAIN sockets \ {s} |-> sockets[x]]
    /\ broadcast' = [event |-> "user:offline", userId |-> sockets[s].user]
    /\ rooms' = [x \in DOMAIN rooms \ {s} |-> rooms[x]]
    /\ net' = [net EXCEPT !.inbox = [x \in DOMAIN net.inbox \ {s} |-> net.inbox[x]]]
    /\ tasks' = BagOfAll(LAMBDA t : IF t.socket = s THEN [t EXCEPT !.socket = 0] ELSE t,
                         tasks)
    /\ audience' = BroadcastTo(DOMAIN sockets \ {s}, s)
    /\ UNCHANGED <<connectedUsers, direct_messages, group_messages, emitted, written,
                   receipts, failed, handshake, elsewhere>>

\* A handler of the socket that is still suspended goes on; its socket.to(room)
\* then excepts a socket that is in no room any more.
Disconnect(s) ==
    /\ s \in DOMAIN sockets
    /\ LET u == sockets[s].user IN
        /\ sockets' = [x \in DOMAIN sockets \ {s} |-> sockets[x]]
        /\ connectedUsers' = [x \in DOMAIN connectedUsers \ {u} |-> connectedUsers[x]]
        /\ broadcast' = [event |-> "user:offline", userId |-> u]
    /\ rooms' = [x \in DOMAIN rooms \ {s} |-> rooms[x]]
    /\ net' = [net EXCEPT !.inbox = [x \in DOMAIN net.inbox \ {s} |-> net.inbox[x]]]
    /\ tasks' = BagOfAll(LAMBDA t : IF t.socket = s THEN [t EXCEPT !.socket = 0] ELSE t,
                         tasks)
    /\ audience' = BroadcastTo(DOMAIN sockets \ {s}, s)
    /\ UNCHANGED <<direct_messages, group_messages, emitted, written, receipts,
                   failed, handshake, elsewhere>>

\* -------------------------------------------------------------- bookkeeping
\* one event handed to a room: socket.to(room).emit / globalIo.to(room).emit
Event(origin, event, room, m, u) ==
    [origin |-> origin, event |-> event, room |-> room, msg |-> m, user |-> u]

\* one UPDATE of a message row on behalf of user u
Update(origin, field, m, u) ==
    [origin |-> origin, field |-> field, msg |-> m, user |-> u]

Range(f) == {f[i] : i \in DOMAIN f}

InFlight == BagCardinality(tasks)

Finish(t) == tasks (-) SetToBag({t})

Replace(t, t2) == (tasks (-) SetToBag({t})) (+) SetToBag({t2})

isDirectChat(chatId) == chatId \in DirectChatIds

isParticipant(chatId, userId) ==
    IF chatId \in DirectChatIds
    THEN userId \in {direct_chats[chatId][1], direct_chats[chatId][2]}
    ELSE chatId \in GroupChatIds /\ userId \in group_chat_participants[chatId]

\* --------------------------------------------- router.post('/:id/messages')
\* The INSERT is the route's only write to a message row.
PostMessage(u, chatId, b) ==
    /\ InFlight < b.tasks
    /\ Cardinality(DOMAIN direct_messages) + Cardinality(DOMAIN group_messages) < b.msgs
    /\ isParticipant(chatId, u)
    /\ LET id == Cardinality(DOMAIN direct_messages)
                 + Cardinality(DOMAIN group_messages) + 1 IN
        IF isDirectChat(chatId)
        THEN /\ direct_messages' = direct_messages @@
                    (id :> [sender_id |-> u, direct_chat_id |-> chatId,
                            delivered |-> FALSE, read |-> FALSE])
             /\ UNCHANGED group_messages
        ELSE /\ group_messages' = group_messages @@
                    (id :> [sender_id |-> u, group_chat_id |-> chatId,
                            delivered_to |-> <<>>, read_by |-> <<>>])
             /\ UNCHANGED direct_messages
    /\ UNCHANGED <<sockets, connectedUsers, rooms, tasks, emitted, written, receipts,
                   broadcast, net, failed, handshake,
                   audience, elsewhere>>

\* --------------------------------------------- socket.on('message:delivered')
\* data = {messageId: m, delivered: d}, received on socket s.
MessageDelivered(s, m, d, b) ==
    /\ s \in DOMAIN sockets
    /\ InFlight < b.tasks
    /\ receipts < b.receipts
    /\ receipts' = receipts + 1
    /\ IF m \in DOMAIN direct_messages
       THEN LET room == direct_messages[m].direct_chat_id IN
            /\ direct_messages' = [direct_messages EXCEPT ![m].delivered = TRUE]
            /\ written' = Count(written, Update("message:delivered", "delivered", m, d))
            /\ emitted' = Count(emitted,
                    Event("message:delivered", "message:delivered", room, m, d))
            /\ net' = Deliver(net, s, room, "message:delivered", m)
            /\ UNCHANGED <<group_messages, tasks>>
       ELSE IF m \in DOMAIN group_messages
       THEN LET room == group_messages[m].group_chat_id
                delivered == group_messages[m].delivered_to IN
            IF d \in Range(delivered)
            THEN /\ emitted' = Count(emitted,
                        Event("message:delivered", "message:delivered", room, m, d))
                 /\ net' = Deliver(net, s, room, "message:delivered", m)
                 /\ UNCHANGED <<direct_messages, group_messages, tasks, written>>
            ELSE /\ tasks' = tasks (+) SetToBag({
                        [NoTask EXCEPT !.kind = "message:delivered", !.user = d,
                                       !.msg = m, !.pc = "update",
                                       !.snap = (m :> delivered), !.socket = s]})
                 /\ UNCHANGED <<direct_messages, group_messages, emitted, written, net>>
       ELSE UNCHANGED <<direct_messages, group_messages, tasks, emitted, written, net>>
    /\ UNCHANGED <<sockets, connectedUsers, rooms, broadcast, failed, handshake,
                   audience, elsewhere>>

\* the UPDATE of the group branch, with the array read before it, and the emit
MessageDeliveredUpdate(t) ==
    /\ t \in BagToSet(tasks)
    /\ t.kind = "message:delivered"
    /\ group_messages' =
          [group_messages EXCEPT ![t.msg].delivered_to = Append(t.snap[t.msg], t.user)]
    /\ written' = Count(written, Update("message:delivered", "delivered", t.msg, t.user))
    /\ emitted' = Count(emitted,
            Event("message:delivered", "message:delivered",
                  group_messages[t.msg].group_chat_id, t.msg, t.user))
    /\ net' = Deliver(net, t.socket, group_messages[t.msg].group_chat_id,
                      "message:delivered", t.msg)
    /\ tasks' = Finish(t)
    /\ UNCHANGED <<sockets, connectedUsers, rooms, direct_messages, receipts, broadcast,
                   failed, handshake,
                   audience, elsewhere>>

\* -------------------------------------------------- socket.on('message:read')
\* data = {messageId: m}, received on socket s; the reader is socket.user.id.
MessageRead(s, m, b) ==
    /\ s \in DOMAIN sockets
    /\ InFlight < b.tasks
    /\ receipts < b.receipts
    /\ receipts' = receipts + 1
    /\ LET u == sockets[s].user IN
       IF m \in DOMAIN direct_messages
       THEN LET room == direct_messages[m].direct_chat_id IN
            /\ direct_messages' = [direct_messages EXCEPT ![m].read = TRUE]
            /\ written' = Count(written, Update("message:read", "read", m, u))
            /\ emitted' = Count(emitted, Event("message:read", "message:read", room, m, u))
            /\ net' = Deliver(net, s, room, "message:read", m)
            /\ UNCHANGED <<group_messages, tasks>>
       ELSE IF m \in DOMAIN group_messages
       THEN LET room == group_messages[m].group_chat_id
                readBy == group_messages[m].read_by IN
            IF u \in Range(readBy)
            THEN /\ emitted' = Count(emitted,
                        Event("message:read", "message:read", room, m, u))
                 /\ net' = Deliver(net, s, room, "message:read", m)
                 /\ UNCHANGED <<direct_messages, group_messages, tasks, written>>
            ELSE /\ tasks' = tasks (+) SetToBag({
                        [NoTask EXCEPT !.kind = "message:read", !.user = u,
                                       !.msg = m, !.pc = "update",
                                       !.snap = (m :> readBy), !.socket = s]})
                 /\ UNCHANGED <<direct_messages, group_messages, emitted, written, net>>
       ELSE UNCHANGED <<direct_messages, group_messages, tasks, emitted, written, net>>
    /\ UNCHANGED <<sockets, connectedUsers, rooms, broadcast, failed, handshake,
                   audience, elsewhere>>

MessageReadUpdate(t) ==
    /\ t \in BagToSet(tasks)
    /\ t.kind = "message:read"
    /\ group_messages' =
          [group_messages EXCEPT ![t.msg].read_by = Append(t.snap[t.msg], t.user)]
    /\ written' = Count(written, Update("message:read", "read", t.msg, t.user))
    /\ emitted' = Count(emitted,
            Event("message:read", "message:read",
                  group_messages[t.msg].group_chat_id, t.msg, t.user))
    /\ net' = Deliver(net, t.socket, group_messages[t.msg].group_chat_id,
                      "message:read", t.msg)
    /\ tasks' = Finish(t)
    /\ UNCHANGED <<sockets, connectedUsers, rooms, direct_messages, receipts, broadcast,
                   failed, handshake,
                   audience, elsewhere>>

\* ----------------------------------------- socket.on('join_chat'/'leave_chat')
\* the call of updateDeliveryStatusForUser(chatId, userId) by join_chat
updateDeliveryStatusForUser(chatId, userId) ==
    [NoTask EXCEPT !.kind = "join_chat", !.user = userId, !.chats = <<chatId>>]

JoinChat(s, chatId, b) ==
    /\ s \in DOMAIN sockets
    /\ InFlight < b.tasks
    /\ receipts < b.receipts
    /\ receipts' = receipts + 1
    /\ rooms' = [rooms EXCEPT ![s] = @ \cup {chatId}]
    /\ tasks' = tasks (+) SetToBag({
            [updateDeliveryStatusForUser(chatId, sockets[s].user)
                EXCEPT !.rejoin = chatId \in rooms[s]]})
    /\ UNCHANGED <<sockets, connectedUsers, direct_messages, group_messages,
                   emitted, written, broadcast, net, failed, handshake,
                   audience, elsewhere>>

LeaveChat(s, chatId) ==
    /\ s \in DOMAIN sockets
    /\ rooms' = [rooms EXCEPT ![s] = @ \ {chatId}]
    /\ UNCHANGED <<sockets, connectedUsers, direct_messages, group_messages,
                   tasks, emitted, written, receipts, broadcast, net, failed, handshake,
                   audience, elsewhere>>

\* ------------------------ socket.on('new_message' / 'typing_start' / 'typing_stop')
\* The handlers have no await: the event is relayed to the room as it comes.
\* data = {chatId, message}, with m the id of data.message: the handler looks
\* neither of them up.
NewMessage(s, chatId, m) ==
    /\ s \in DOMAIN sockets
    /\ net' = Deliver(net, s, chatId, "new_message", m)
    /\ UNCHANGED <<sockets, connectedUsers, rooms, direct_messages, group_messages,
                   tasks, emitted, written, receipts, broadcast, failed, handshake,
                   audience, elsewhere>>

Typing(s, chatId, event) ==
    /\ s \in DOMAIN sockets
    /\ event \in {"typing_start", "typing_stop"}
    /\ net' = Deliver(net, s, chatId, event, 0)
    /\ UNCHANGED <<sockets, connectedUsers, rooms, direct_messages, group_messages,
                   tasks, emitted, written, receipts, broadcast, failed, handshake,
                   audience, elsewhere>>

\* ------------ markAllMessagesAsDeliveredForUser / updateDeliveryStatusForUser
\* The two sweeps run the same two queries per chat; the rows of a SELECT
\* without ORDER BY come in any order, so the loop takes any row of `todo`.

\* a faulty SELECT that leaves out the filter delivered = false: C8 must not
\* hold of a sweep that uses it
SelectEverything(chatId, userId) ==
    IF isDirectChat(chatId)
    THEN {m \in DOMAIN direct_messages :
            /\ direct_messages[m].direct_chat_id = chatId
            /\ direct_messages[m].sender_id # userId}
    ELSE {m \in DOMAIN group_messages :
            /\ group_messages[m].group_chat_id = chatId
            /\ group_messages[m].sender_id # userId}

\* SELECT ... WHERE sender_id != userId AND delivered = false        (direct)
\* SELECT id, delivered_to ... WHERE sender_id != userId, then the
\* rows whose delivered_to does not include userId                   (group)
SelectUndelivered(chatId, userId) ==
    IF isDirectChat(chatId)
    THEN {m \in DOMAIN direct_messages :
            /\ direct_messages[m].direct_chat_id = chatId
            /\ direct_messages[m].sender_id # userId
            /\ ~direct_messages[m].delivered}
    ELSE {m \in DOMAIN group_messages :
            /\ group_messages[m].group_chat_id = chatId
            /\ group_messages[m].sender_id # userId
            /\ userId \notin Range(group_messages[m].delivered_to)}

\* what is left of sweep t2 after a step: the loop goes on, the next chat is
\* selected, or the sweep returns
Advance(t, t2) ==
    IF t2.todo # {}
    THEN tasks' = Replace(t, [t2 EXCEPT !.pc = "update"])
    ELSE IF Len(t2.chats) > 1
    THEN tasks' = Replace(t, [t2 EXCEPT !.pc = "select", !.chats = Tail(@),
                                        !.snap = <<>>])
    ELSE tasks' = Finish(t)

SweepSelect(t) ==
    /\ t \in BagToSet(tasks)
    /\ t.kind \in {"connection", "join_chat"}
    /\ t.pc = "select"
    /\ IF t.chats = <<>>
       THEN Advance(t, [t EXCEPT !.chats = <<"">>])
       ELSE LET ids == SelectUndelivered(Head(t.chats), t.user)
                snap == [m \in ids |->
                            IF isDirectChat(Head(t.chats)) THEN <<>>
                            ELSE group_messages[m].delivered_to]
            IN  Advance(t, [t EXCEPT !.todo = ids, !.snap = snap])
    /\ UNCHANGED <<sockets, connectedUsers, rooms, direct_messages, group_messages,
                   emitted, written, receipts, broadcast, net, failed, handshake,
                   audience, elsewhere>>

\* one turn of the loop: the UPDATE of row m and the emit to the chat's room
SweepUpdate(t, m) ==
    /\ t \in BagToSet(tasks)
    /\ t.kind \in {"connection", "join_chat"}
    /\ t.pc = "update"
    /\ m \in t.todo
    /\ LET chatId == Head(t.chats) IN
        /\ IF isDirectChat(chatId)
           THEN /\ direct_messages' = [direct_messages EXCEPT ![m].delivered = TRUE]
                /\ UNCHANGED group_messages
           ELSE /\ group_messages' =
                     [group_messages EXCEPT ![m].delivered_to = Append(t.snap[m], t.user)]
                /\ UNCHANGED direct_messages
        /\ written' = Count(written, Update(t.kind, "delivered", m, t.user))
        /\ emitted' = Count(emitted, Event(t.kind, "message:delivered", chatId, m, t.user))
        /\ net' = Deliver(net, 0, chatId, "message:delivered", m)
        /\ Advance(t, [t EXCEPT !.todo = @ \ {m},
                                !.snap = [x \in DOMAIN t.snap \ {m} |-> t.snap[x]]])
    /\ UNCHANGED <<sockets, connectedUsers, rooms, receipts, broadcast, failed, handshake,
                   audience, elsewhere>>

\* ------------------------------------------ router.put('/:id/messages/read')
\* SELECT id ... WHERE sender_id != userId AND not read by userId
messagesToMark(chatId, userId) ==
    IF isDirectChat(chatId)
    THEN {m \in DOMAIN direct_messages :
            /\ direct_messages[m].direct_chat_id = chatId
            /\ direct_messages[m].sender_id # userId
            /\ ~direct_messages[m].read}
    ELSE {m \in DOMAIN group_messages :
            /\ group_messages[m].group_chat_id = chatId
            /\ group_messages[m].sender_id # userId
            /\ userId \notin Range(group_messages[m].read_by)}

\* the request of user u up to its SELECT; 403 for a user who is no participant
MarkRead(u, chatId, b) ==
    /\ InFlight < b.tasks
    /\ receipts < b.receipts
    /\ receipts' = receipts + 1
    /\ IF isParticipant(chatId, u)
       THEN tasks' = tasks (+) SetToBag({
                [NoTask EXCEPT !.kind = "mark_read", !.user = u, !.chats = <<chatId>>,
                               !.pc = "update", !.todo = messagesToMark(chatId, u)]})
       ELSE UNCHANGED tasks
    /\ UNCHANGED <<sockets, connectedUsers, rooms, direct_messages, group_messages,
                   emitted, written, broadcast, net, failed, handshake,
                   audience, elsewhere>>

\* the UPDATE of every row that matches now, then one safeEmit per selected row
MarkReadUpdate(t) ==
    /\ t \in BagToSet(tasks)
    /\ t.kind = "mark_read"
    /\ LET chatId == Head(t.chats)
           rows == messagesToMark(chatId, t.user) IN
        /\ IF isDirectChat(chatId)
           THEN /\ direct_messages' =
                     [m \in DOMAIN direct_messages |->
                        IF m \in rows THEN [direct_messages[m] EXCEPT !.read = TRUE]
                        ELSE direct_messages[m]]
                /\ UNCHANGED group_messages
           ELSE /\ group_messages' =
                     [m \in DOMAIN group_messages |->
                        IF m \in rows
                        THEN [group_messages[m] EXCEPT !.read_by = Append(@, t.user)]
                        ELSE group_messages[m]]
                /\ UNCHANGED direct_messages
        /\ written' = CountAll(written, {Update("mark_read", "read", m, t.user) : m \in rows})
        /\ emitted' = CountAll(emitted,
                {Event("mark_read", "message:read", chatId, m, t.user) : m \in t.todo})
        /\ net' = DeliverAll(net, 0, chatId, "message:read", SetToSeq(t.todo))
    /\ tasks' = Finish(t)
    /\ UNCHANGED <<sockets, connectedUsers, rooms, receipts, broadcast, failed, handshake,
                   audience, elsewhere>>

\* ------------------------------------------- router.post('/') with type 'private'
\* the rows of direct_chats: those of the chats above and those inserted since
DirectChatRows ==
    {[id |-> c, user1_id |-> direct_chats[c][1], user2_id |-> direct_chats[c][2]] :
        c \in DirectChatIds}
    \cup created

\* SELECT id FROM direct_chats WHERE (user1_id = $1 AND user2_id = $2)
\*                                OR (user1_id = $2 AND user2_id = $1)
existingDirectChats(userId, otherUserId) ==
    {r \in DirectChatRows :
        \/ r.user1_id = userId /\ r.user2_id = otherUserId
        \/ r.user1_id = otherUserId /\ r.user2_id = userId}

\* the constraints of the table: FOREIGN KEY (user1_id), (user2_id) to users,
\* UNIQUE (user1_id, user2_id), CHECK (user1_id != user2_id)
InsertAccepted(user1, user2) ==
    /\ user1 \in Users
    /\ user2 \in Users
    /\ ~\E r \in DirectChatRows : r.user1_id = user1 /\ r.user2_id = user2
    /\ user1 # user2

\* the request of user u with participants = [other], up to its first SELECT
CreateChat(u, other, b) ==
    /\ InFlight < b.tasks
    /\ tasks' = tasks (+) SetToBag({
            [NoTask EXCEPT !.kind = "create_chat", !.user = u, !.other = other,
                           !.pc = IF existingDirectChats(u, other) # {}
                                  THEN "existing" ELSE "insert"]})
    /\ UNCHANGED <<sockets, connectedUsers, rooms, direct_messages, group_messages,
                   emitted, written, broadcast, receipts, net, failed, handshake,
                   audience, elsewhere>>

\* the chat exists: its row is read and returned with status 200
CreateChatExisting(t) ==
    /\ t \in BagToSet(tasks)
    /\ t.kind = "create_chat"
    /\ t.pc = "existing"
    /\ tasks' = Finish(t)
    /\ UNCHANGED <<sockets, connectedUsers, rooms, direct_messages, group_messages,
                   emitted, written, broadcast, receipts, net, failed, handshake,
                   audience, elsewhere>>

\* the INSERT of the new row, whose id (a fresh uuid) is c1, c2, ... here; a
\* rejected INSERT throws into the route's catch, which answers 500
CreateChatInsert(t) ==
    /\ t \in BagToSet(tasks)
    /\ t.kind = "create_chat"
    /\ t.pc = "insert"
    /\ Cardinality(created) < MaxChats
    /\ IF InsertAccepted(t.user, t.other)
       THEN created' = created \cup
                {[id |-> "c" \o ToString(Cardinality(created) + 1), user1_id |-> t.user,
                  user2_id |-> t.other]}
       ELSE UNCHANGED created
    /\ tasks' = Finish(t)
    /\ UNCHANGED <<sockets, connectedUsers, rooms, direct_messages, group_messages,
                   emitted, written, broadcast, receipts, net, failed, handshake,
                   audience, service, thunks, store>>

\* ---------------------------------------------------- a rejected pool.query
\* An UPDATE that pool.query rejects throws at its await.  Every handler, route
\* and sweep has its awaits inside one try whose catch logs the error: the rest
\* of the handler, the emit and the rows still to visit included, is skipped.

\* the column a handler writes
FieldOf(kind) == IF kind \in {"message:read", "mark_read"} THEN "read" ELSE "delivered"

\* the UPDATE of the direct branch of message:delivered is rejected
MessageDeliveredFails(s, m, d, b) ==
    /\ s \in DOMAIN sockets
    /\ InFlight < b.tasks
    /\ receipts < b.receipts
    /\ Cardinality(failed) < MaxFailures
    /\ m \in DOMAIN direct_messages
    /\ receipts' = receipts + 1
    /\ failed' = failed \cup {Update("message:delivered", "delivered", m, d)}
    /\ UNCHANGED <<sockets, connectedUsers, rooms, direct_messages, group_messages,
                   tasks, emitted, written, broadcast, net, handshake,
                   audience, elsewhere>>

\* the UPDATE of the direct branch of message:read is rejected
MessageReadFails(s, m, b) ==
    /\ s \in DOMAIN sockets
    /\ InFlight < b.tasks
    /\ receipts < b.receipts
    /\ Cardinality(failed) < MaxFailures
    /\ m \in DOMAIN direct_messages
    /\ receipts' = receipts + 1
    /\ failed' = failed \cup {Update("message:read", "read", m, sockets[s].user)}
    /\ UNCHANGED <<sockets, connectedUsers, rooms, direct_messages, group_messages,
                   tasks, emitted, written, broadcast, net, handshake,
                   audience, elsewhere>>

\* a faulty handler that emits although its UPDATE was rejected: C15 must not
\* hold of it
UpdateFailsButEmits(t, m) ==
    /\ t \in BagToSet(tasks)
    /\ t.pc = "update"
    /\ Cardinality(failed) < MaxFailures
    /\ m = IF t.kind \in {"connection", "join_chat"} THEN CHOOSE x \in t.todo : TRUE
           ELSE t.msg
    /\ failed' = failed \cup {Update(t.kind, FieldOf(t.kind), m, t.user)}
    /\ emitted' = Count(emitted, Event(t.kind, "message:" \o FieldOf(t.kind), "", m, t.user))
    /\ tasks' = Finish(t)
    /\ UNCHANGED <<sockets, connectedUsers, rooms, direct_messages, group_messages,
                   written, receipts, broadcast, net, handshake,
                   audience, elsewhere>>

\* the UPDATE a suspended handler waits for is rejected: the row m of a sweep,
\* the message of a group receipt, the rows of the bulk route (m = 0)
UpdateFails(t, m) ==
    /\ t \in BagToSet(tasks)
    /\ t.pc = "update"
    /\ Cardinality(failed) < MaxFailures
    /\ IF t.kind \in {"connection", "join_chat"} THEN m \in t.todo ELSE m = t.msg
    /\ failed' = failed \cup {Update(t.kind, FieldOf(t.kind), m, t.user)}
    /\ tasks' = Finish(t)
    /\ UNCHANGED <<sockets, connectedUsers, rooms, direct_messages, group_messages,
                   emitted, written, receipts, broadcast, net, handshake,
                   audience, elsewhere>>

\* ------------------------------------------------ SocketService (client)
\* a faulty connect() that does not disconnect the socket it holds: C29 must
\* not hold of it
connectKeepsOld ==
    /\ Len(service.made) < MaxCreated
    /\ service' = [socket |-> Len(service.made) + 1, made |-> Append(service.made, "open")]
    /\ UNCHANGED <<thunks, store, serverVars>>

\* connect(token): the socket that is held is disconnected, then io(...)
\* creates a socket, which is held from then on
connect ==
    /\ Len(service.made) < MaxCreated
    /\ LET made == IF service.socket # 0
                   THEN [service.made EXCEPT ![service.socket] = "closed"]
                   ELSE service.made
       IN  service' = [socket |-> Len(made) + 1, made |-> Append(made, "open")]
    /\ UNCHANGED <<thunks, store, serverVars>>

\* disconnect()
disconnect ==
    /\ service.socket # 0
    /\ service' = [socket |-> 0,
                   made |-> [service.made EXCEPT ![service.socket] = "closed"]]
    /\ UNCHANGED <<thunks, store, serverVars>>

\* ------------------------------------------------ the sendMessage thunk (client)
\* handleSend: dispatch(sendMessage({chatId: currentChat.id, content})); the
\* thunk is suspended at its await api.post
sendMessage ==
    /\ store.currentChat # ""
    /\ Len(thunks) < MaxSends
    /\ thunks' = Append(thunks, [chatId |-> store.currentChat, status |-> "pending",
                                 emitted |-> FALSE])
    /\ UNCHANGED <<service, store, serverVars>>

\* a faulty thunk that emits new_message whatever the POST returned: C24 must
\* not hold of it
sendMessageSettledEmitsAnyway(i, ok, read) ==
    /\ i \in DOMAIN thunks
    /\ thunks[i].status = "pending"
    /\ thunks' = [thunks EXCEPT ![i].status = IF ok THEN "fulfilled" ELSE "rejected",
                                ![i].emitted = service.socket # 0]
    /\ UNCHANGED <<service, store, serverVars>>

\* The POST of thunk i returns.  ok: with a 2xx status and the persisted
\* message, whose read flag is `read`; then the thunk emits new_message on the
\* socket the service holds, if it holds one, and the fulfilled reducer pushes
\* the message.  Otherwise api.post throws into the catch: rejectWithValue.
sendMessageSettled(i, ok, read) ==
    /\ i \in DOMAIN thunks
    /\ thunks[i].status = "pending"
    /\ IF ok
       THEN /\ Len(chatMessages(thunks[i].chatId)) < MaxStore
            /\ thunks' = [thunks EXCEPT ![i].status = "fulfilled",
                                        ![i].emitted = service.socket # 0]
            /\ store' = [store EXCEPT
                  !.messages = Push(@, thunks[i].chatId,
                                    [id |-> i, sender_id |-> Me, read |-> read]),
                  !.seen = IF read THEN @ \cup {i} ELSE @]
       ELSE /\ thunks' = [thunks EXCEPT ![i].status = "rejected"]
            /\ UNCHANGED store
    /\ UNCHANGED <<service, serverVars>>

\* ------------------------------------------------------- ChatWindow (client)
\* the chat that is open changes: fetchMessages(page 1) and
\* markAllMessagesAsRead are dispatched
SelectChat(chatId) ==
    /\ chatId # store.currentChat
    /\ store' = [store EXCEPT !.currentChat = chatId,
                              !.fetching = @ \cup {chatId},
                              !.marking = @ \cup {chatId}]
    /\ UNCHANGED <<service, thunks, serverVars>>

\* the rows the server can return for a chat: messages this client has posted
\* to it and messages of other users, each read or not
RowsOf(chatId) ==
    {rows \in UNION {[ids -> BOOLEAN] :
                        ids \in SUBSET ({i \in DOMAIN thunks : thunks[i].chatId = chatId}
                                        \cup Incoming)} :
        Cardinality(DOMAIN rows) <= MaxStore}

\* fetchMessages.fulfilled for page 1: the rows replace the chat's messages
fetchMessagesFulfilled(chatId, rows) ==
    /\ chatId \in store.fetching
    /\ store' = [store EXCEPT
          !.fetching = @ \ {chatId},
          !.messages =
              [c \in DOMAIN @ \cup {chatId} |->
                  IF c = chatId
                  THEN [k \in 1..Cardinality(DOMAIN rows) |->
                          LET id == SetToSeq(DOMAIN rows)[k] IN
                          [id |-> id,
                           sender_id |-> IF id \in Incoming THEN Other ELSE Me,
                           read |-> rows[id]]]
                  ELSE @[c]],
          !.seen = @ \cup {id \in DOMAIN rows : id \notin Incoming /\ rows[id]}]
    /\ UNCHANGED <<service, thunks, serverVars>>

\* markAllMessagesAsRead of the chat settles: fulfilled (the PUT returned 2xx)
\* or rejected
markAllMessagesAsReadSettled(chatId, ok) ==
    /\ chatId \in store.marking
    /\ store' = [store EXCEPT
          !.marking = @ \ {chatId},
          !.messages =
              IF ok /\ chatId \in DOMAIN @
              THEN [@ EXCEPT ![chatId] =
                      [k \in DOMAIN @ |-> [@[k] EXCEPT !.read = TRUE]]]
              ELSE @]
    /\ UNCHANGED <<service, thunks, serverVars>>

\* the handlers are registered when a socket is held and a chat is open
Listening == service.socket # 0 /\ store.currentChat # ""

\* socket.on('new_message'): data = {chatId, message: [id, sender_id]}
OnNewMessage(chatId, id, sender) ==
    /\ Listening
    /\ IF chatId = store.currentChat /\ sender # Me
       THEN /\ Len(chatMessages(chatId)) < MaxStore
            /\ store' = [store EXCEPT
                  !.messages = Push(@, chatId,
                                    [id |-> id, sender_id |-> sender, read |-> FALSE]),
                  !.marking = @ \cup {chatId}]
       ELSE UNCHANGED store
    /\ UNCHANGED <<service, thunks, serverVars>>

\* socket.on('message:read'): data = {chatId, messageId}; updateMessage sets
\* read on the first message with that id, if this user sent it
OnMessageRead(chatId, messageId) ==
    /\ Listening
    /\ LET list == chatMessages(chatId)
           found == {k \in DOMAIN list : list[k].id = messageId}
           index == CHOOSE k \in found : \A j \in found : k <= j
       IN
       store' = [store EXCEPT
          !.seen = @ \cup {messageId},
          !.messages =
              IF chatId = store.currentChat /\ found # {} /\ list[index].sender_id = Me
              THEN [@ EXCEPT ![chatId][index].read = TRUE]
              ELSE @]
    /\ UNCHANGED <<service, thunks, serverVars>>

\* ------------------------------------- new_message, from sender to recipient
\* The sender's sendMessage thunk emits new_message for the message m its POST
\* has persisted, on the sender's socket s: the server relays it to the room
\* (and relays it again if it is sent again).
EmitNewMessage(s, m) ==
    /\ s \in DOMAIN sockets
    /\ m \in DOMAIN direct_messages \cup DOMAIN group_messages
    /\ sockets[s].user = (IF m \in DOMAIN direct_messages
                          THEN direct_messages[m].sender_id
                          ELSE group_messages[m].sender_id)
    /\ NewMessage(s, IF m \in DOMAIN direct_messages
                     THEN direct_messages[m].direct_chat_id
                     ELSE group_messages[m].group_chat_id, m)

\* The new_message handler of the client behind socket s, for the i-th event
\* the socket has received: for a message of another user in the chat that is
\* open (the one whose room the client has joined) it dispatches
\* markAllMessagesAsRead, whose PUT reaches the server.  The PUT changes
\* nothing when it is repeated.
OnNewMessagePut(s, i, b) ==
    /\ s \in DOMAIN sockets
    /\ i \in DOMAIN net.inbox[s]
    /\ LET data == net.inbox[s][i] IN
        /\ data.event = "new_message"
        /\ data.room \in rooms[s]
        /\ data.msg \in DOMAIN direct_messages \cup DOMAIN group_messages
        /\ sockets[s].user # (IF data.msg \in DOMAIN direct_messages
                              THEN direct_messages[data.msg].sender_id
                              ELSE group_messages[data.msg].sender_id)
        /\ MarkRead(sockets[s].user, data.room, b)

\* ------------------------------------------------------------ specifications
NextWith(b) ==
    \/ \E u \in Users : Connect(u, b)
    \/ \E s \in SocketIds : Disconnect(s)
    \/ \E u \in Users, c \in ChatIds : PostMessage(u, c, b)
    \/ \E s \in SocketIds, m \in 1..b.msgs, d \in Users : MessageDelivered(s, m, d, b)
    \/ \E t \in BagToSet(tasks) : MessageDeliveredUpdate(t)
    \/ \E s \in SocketIds, m \in 1..b.msgs : MessageRead(s, m, b)
    \/ \E t \in BagToSet(tasks) : MessageReadUpdate(t)
    \/ \E s \in SocketIds, c \in ChatIds : JoinChat(s, c, b)
    \/ \E s \in SocketIds, c \in ChatIds : LeaveChat(s, c)
    \/ \E t \in BagToSet(tasks) : SweepSelect(t)
    \/ \E t \in BagToSet(tasks), m \in 1..b.msgs : SweepUpdate(t, m)
    \/ \E u \in Users, c \in ChatIds : MarkRead(u, c, b)
    \/ \E t \in BagToSet(tasks) : MarkReadUpdate(t)

\* handlers interleave at their awaits
Next == NextWith(Bounds(MaxClients, MaxTasks, MaxMsgs, MaxReceipts))

Spec == Init /\ [][Next]_vars

\* one handler at a time: each runs to its end before the next event is taken
NextSerial == NextWith(Bounds(MaxClients, 1, MaxMsgs, SerialReceipts))

SpecSerial == Init /\ [][NextSerial]_vars

\* the reconciliation scenario: users connect and disconnect, messages are
\* posted, each connection sweep runs to its end before the next event
NextSweep ==
    \/ \E u \in Users : Connect(u, Bounds(MaxClients, 1, SweepMsgs, 0))
    \/ \E s \in SocketIds : Disconnect(s)
    \/ \E u \in Users, c \in ChatIds : PostMessage(u, c, Bounds(MaxClients, 1, SweepMsgs, 0))
    \/ \E t \in BagToSet(tasks) : SweepSelect(t)
    \/ \E t \in BagToSet(tasks), m \in 1..SweepMsgs : SweepUpdate(t, m)

SpecSweep == Init /\ [][NextSweep]_vars

\* the registry: connections, disconnects and the sweeps they start, with no
\* message posted
NextPresence ==
    \/ \E u \in Users : Connect(u, Bounds(MaxSockets, MaxTasks, 0, 0))
    \/ \E s \in SocketIds : Disconnect(s)
    \/ \E t \in BagToSet(tasks) : SweepSelect(t)

SpecPresence == Init /\ [][NextPresence]_vars

\* the handlers interleave as in Spec, and an UPDATE may be rejected
NextFail ==
    \/ NextWith(Bounds(MaxClients, MaxTasks, MaxMsgs, MaxReceipts))
    \/ \E s \in SocketIds, m \in 1..MaxMsgs, d \in Users :
          MessageDeliveredFails(s, m, d, Bounds(MaxClients, MaxTasks, MaxMsgs, MaxReceipts))
    \/ \E s \in SocketIds, m \in 1..MaxMsgs :
          MessageReadFails(s, m, Bounds(MaxClients, MaxTasks, MaxMsgs, MaxReceipts))
    \/ \E t \in BagToSet(tasks), m \in 0..MaxMsgs : UpdateFails(t, m)

SpecFail == Init /\ [][NextFail]_vars

\* the handshakes: any token, with the registry as in SpecPresence
NextAuth ==
    \/ \E token \in Tokens, dbOk \in BOOLEAN :
          Handshake(token, dbOk, Bounds(MaxSockets, MaxTasks, 0, 0))
    \/ \E s \in SocketIds : Disconnect(s)
    \/ \E t \in BagToSet(tasks) : SweepSelect(t)

SpecAuth == Init /\ [][NextAuth]_vars

\* the rooms: two sockets join and leave rooms, of chats and of ids that name
\* no chat, and relay events to them; no message is persisted, so the sweeps
\* of the connections and of join_chat find nothing to mark
NextRooms ==
    \/ \E u \in Users : Connect(u, Bounds(MaxSockets, 1, MaxMsgs, RoomReceipts))
    \/ \E s \in SocketIds : Disconnect(s)
    \/ \E s \in SocketIds, c \in RoomIds :
          JoinChat(s, c, Bounds(MaxSockets, 1, MaxMsgs, RoomReceipts))
    \/ \E s \in SocketIds, c \in RoomIds : LeaveChat(s, c)
    \/ \E s \in SocketIds, c \in RoomIds : NewMessage(s, c, NoMessage)
    \/ \E s \in SocketIds, c \in RoomIds, e \in {"typing_start", "typing_stop"} :
          Typing(s, c, e)
    \/ \E t \in BagToSet(tasks) : SweepSelect(t)

SpecRooms == Init /\ [][NextRooms]_vars

\* the presence broadcasts: sockets connect and disconnect, and join and leave
\* the rooms of chats in between
NextBroadcast ==
    \/ \E u \in Users : Connect(u, Bounds(MaxSockets, 1, 0, RoomReceipts))
    \/ \E s \in SocketIds : Disconnect(s)
    \/ \E s \in SocketIds, c \in ChatIds :
          JoinChat(s, c, Bounds(MaxSockets, 1, 0, RoomReceipts))
    \/ \E s \in SocketIds, c \in ChatIds : LeaveChat(s, c)
    \/ \E t \in BagToSet(tasks) : SweepSelect(t)

SpecBroadcast == Init /\ [][NextBroadcast]_vars

\* the creation of direct chats: requests of any user for any other user,
\* interleaved at their queries
NextChats ==
    \/ \E u \in Users, other \in Users \cup {UnknownUser} :
          CreateChat(u, other, Bounds(0, MaxTasks, 0, 0))
    \/ \E t \in BagToSet(tasks) : CreateChatExisting(t)
    \/ \E t \in BagToSet(tasks) : CreateChatInsert(t)

SpecChats == Init /\ [][NextChats]_vars

\* the client: what the user does and what arrives from the server, in any order
NextClient ==
    \/ connect
    \/ disconnect
    \/ sendMessage
    \/ \E i \in 1..MaxSends, ok \in BOOLEAN, read \in BOOLEAN : sendMessageSettled(i, ok, read)
    \/ \E c \in ChatIds : SelectChat(c)
    \/ \E c \in ChatIds : \E rows \in RowsOf(c) : fetchMessagesFulfilled(c, rows)
    \/ \E c \in ChatIds, ok \in BOOLEAN : markAllMessagesAsReadSettled(c, ok)
    \/ \E c \in ChatIds, id \in Incoming, sender \in {Me, Other} : OnNewMessage(c, id, sender)
    \/ \E c \in ChatIds, id \in 1..MaxSends : OnMessageRead(c, id)

SpecClient == Init /\ [][NextClient]_vars

\* the client's socket and its sendMessage thunks alone
NextSend ==
    \/ connect
    \/ disconnect
    \/ \E c \in ChatIds : SelectChat(c)
    \/ sendMessage
    \/ \E i \in 1..MaxSends, ok \in BOOLEAN, read \in BOOLEAN : sendMessageSettled(i, ok, read)

SpecSend == Init /\ [][NextSend]_vars

\* a message on its way from the sender to the recipient: both connect and
\* join rooms, the sender posts and announces the message, the recipient's
\* client reacts; one handler runs at a time
LiveBounds == Bounds(MaxSockets, 1, MaxMsgs, LiveReceipts)

NextLive ==
    \/ \E u \in Users : Connect(u, LiveBounds)
    \/ \E s \in SocketIds : Disconnect(s)
    \/ \E u \in Users, c \in ChatIds : PostMessage(u, c, LiveBounds)
    \/ \E s \in SocketIds, c \in ChatIds : JoinChat(s, c, LiveBounds)
    \/ \E s \in SocketIds, m \in 1..MaxMsgs : EmitNewMessage(s, m)
    \/ \E s \in SocketIds, i \in 1..MaxPublished : OnNewMessagePut(s, i, LiveBounds)
    \/ \E t \in BagToSet(tasks) : SweepSelect(t)
    \/ \E t \in BagToSet(tasks), m \in 1..MaxMsgs : SweepUpdate(t, m)
    \/ \E t \in BagToSet(tasks) : MarkReadUpdate(t)

\* every query returns, so a suspended handler goes on; an event that has
\* arrived at a client is handled
Fairness ==
    /\ WF_vars(\E t \in BagToSet(tasks) : SweepSelect(t))
    /\ WF_vars(\E t \in BagToSet(tasks), m \in 1..MaxMsgs : SweepUpdate(t, m))
    /\ WF_vars(\E t \in BagToSet(tasks) : MarkReadUpdate(t))
    /\ WF_vars(\E s \in SocketIds, i \in 1..MaxPublished :
                  OnNewMessagePut(s, i, LiveBounds))

SpecLive == Init /\ [][NextLive]_vars /\ Fairness

\* =================================================================== claims
Online(u) == [event |-> "user:online", userId |-> u]
Offline(u) == [event |-> "user:offline", userId |-> u]

\* the step is a connection or a disconnect
PresenceStep == sockets' # sockets

\* C1: a connection of a user who already has a live connection broadcasts no
\* user:online; user:online is broadcast only when the user's number of live
\* connections goes from 0 to 1.
C1_OnlineOnlyOnFirstConnection ==
    [][\A u \in Users :
        /\ (LiveSockets(u) # {}
              /\ Cardinality(LiveSockets(u)') > Cardinality(LiveSockets(u)))
           => broadcast' # Online(u)
        /\ (PresenceStep /\ broadcast' = Online(u))
           => (LiveSockets(u) = {} /\ LiveSockets(u)' # {})]_vars

\* C2: when one of two live connections of a user disconnects, no user:offline
\* is broadcast and the user is still reported online; user:offline is
\* broadcast only when the last live connection disconnects.
C2_OfflineOnlyOnLastDisconnect ==
    [][\A u \in Users :
        /\ (Cardinality(LiveSockets(u)) >= 2
              /\ Cardinality(LiveSockets(u)') < Cardinality(LiveSockets(u)))
           => (broadcast' # Offline(u) /\ isUserOnline(u)')
        /\ (PresenceStep /\ broadcast' = Offline(u))
           => (LiveSockets(u) # {} /\ LiveSockets(u)' = {})]_vars

\* C3: in every reachable state isUserOnline(u) is true exactly when u has at
\* least one live connection.
C3_OnlineIffLiveConnection ==
    \A u \in Users : isUserOnline(u) <=> LiveSockets(u) # {}

\* C9: the sweep markAllMessagesAsDeliveredForUser(u) is started exactly once
\* per 0 -> 1 transition of u's live connections, and never for a connection
\* opened while u has another live connection.
C9_SweepOncePerFirstConnection ==
    [][\A u \in Users :
        LET fresh == markAllMessagesAsDeliveredForUser(u) IN
        IF LiveSockets(u) = {} /\ LiveSockets(u)' # {}
        THEN CopiesIn(fresh, tasks') = CopiesIn(fresh, tasks) + 1
        ELSE CopiesIn(fresh, tasks') <= CopiesIn(fresh, tasks)]_vars

\* C4: for every direct message read implies delivered, and for every group
\* message read_by is a subset of delivered_to.
C4_ReadImpliesDelivered ==
    /\ \A m \in DOMAIN direct_messages :
          direct_messages[m].read => direct_messages[m].delivered
    /\ \A m \in DOMAIN group_messages :
          Range(group_messages[m].read_by) \subseteq Range(group_messages[m].delivered_to)

\* C5: the sender of a message is never in the message's delivered_to or
\* read_by, and no UPDATE sets the delivered or read flag of a direct message
\* on behalf of its sender.
C5_NoSelfDelivery ==
    /\ \A m \in DOMAIN group_messages :
          group_messages[m].sender_id \notin
              Range(group_messages[m].delivered_to) \cup Range(group_messages[m].read_by)
    /\ \A w \in BagToSet(written) :
          w.msg \in DOMAIN direct_messages => w.user # direct_messages[w.msg].sender_id

\* C6: handling message:delivered (message:read) twice for the same message
\* and recipient performs no second UPDATE and emits the event to the room at
\* most once in total.  (Checked with handlers running one at a time.)
ReceiptHandlers == {"message:delivered", "message:read"}

C6_ReceiptIdempotent ==
    /\ \A e \in BagToSet(emitted) :
          e.origin \in ReceiptHandlers => CopiesIn(e, emitted) <= 1
    /\ \A w \in BagToSet(written) :
          w.origin \in ReceiptHandlers => CopiesIn(w, written) <= 1

\* C7: delivery/read state only grows: an id in delivered_to or read_by, or a
\* delivered or read flag that is set, stays in every later state.
C7_DeliveryStateOnlyGrows ==
    [][/\ \A m \in DOMAIN direct_messages :
             /\ direct_messages[m].delivered => direct_messages'[m].delivered
             /\ direct_messages[m].read => direct_messages'[m].read
       /\ \A m \in DOMAIN group_messages :
             /\ Range(group_messages[m].delivered_to)
                    \subseteq Range(group_messages'[m].delivered_to)
             /\ Range(group_messages[m].read_by)
                    \subseteq Range(group_messages'[m].read_by)]_vars

\* C8: when user X connects while N direct messages of the other participant
\* are undelivered, then once the sweep has gone through the direct chat all N
\* are delivered and exactly one message:delivered per message was emitted to
\* the chat's room; no sweep ever emits a further event for a message that is
\* already delivered.  (Checked with each sweep running to its end before the
\* next event.)
DeliveredBySweep(m, u) ==
    CopiesIn(Event("connection", "message:delivered",
                   direct_messages[m].direct_chat_id, m, u), emitted)

Recipient(m) ==
    CHOOSE u \in Users :
        /\ u # direct_messages[m].sender_id
        /\ isParticipant(direct_messages[m].direct_chat_id, u)

\* the sweep is through with the user's direct chats
Passed(t) == \A i \in DOMAIN t.chats : ~isDirectChat(t.chats[i])

C8_SweepDeliversEachOnce ==
    /\ \A t \in BagToSet(tasks) :
          (t.kind = "connection" /\ Passed(t)) =>
              \A m \in t.pre :
                  direct_messages[m].delivered /\ DeliveredBySweep(m, t.user) = 1
    /\ \A m \in DOMAIN direct_messages, u \in Users :
          /\ DeliveredBySweep(m, u) =
                 IF u = Recipient(m) /\ direct_messages[m].delivered THEN 1 ELSE 0
          /\ CopiesIn(Update("connection", "delivered", m, u), written)
                 = DeliveredBySweep(m, u)

\* a sweep of a user who connected with SweepMsgs undelivered messages is
\* through with the direct chat
C8_Witness ==
    \E t \in BagToSet(tasks) :
        /\ t.kind = "connection"
        /\ Passed(t)
        /\ Cardinality(t.pre) = SweepMsgs

\* C10: however the connection sweep, the join_chat sweep and message:delivered
\* handlers interleave, at most one message:delivered event is emitted per
\* message and recipient, and the recipient occurs at most once in delivered_to.
DeliveredEvents(room, m, u) ==
    CopiesIn(Event("connection", "message:delivered", room, m, u), emitted)
    + CopiesIn(Event("join_chat", "message:delivered", room, m, u), emitted)
    + CopiesIn(Event("message:delivered", "message:delivered", room, m, u), emitted)

Occurrences(seq, x) == Cardinality({i \in DOMAIN seq : seq[i] = x})

C10_OneDeliveredEventPerRecipient ==
    /\ \A m \in DOMAIN direct_messages, u \in Users :
          DeliveredEvents(direct_messages[m].direct_chat_id, m, u) <= 1
    /\ \A m \in DOMAIN group_messages, u \in Users :
          /\ DeliveredEvents(group_messages[m].group_chat_id, m, u) <= 1
          /\ Occurrences(group_messages[m].delivered_to, u) <= 1

\* the chat and the sender of a persisted message
ChatOf(m) ==
    IF m \in DOMAIN direct_messages THEN direct_messages[m].direct_chat_id
    ELSE group_messages[m].group_chat_id

SenderOf(m) ==
    IF m \in DOMAIN direct_messages THEN direct_messages[m].sender_id
    ELSE group_messages[m].sender_id

Messages == DOMAIN direct_messages \cup DOMAIN group_messages

\* C11: a bulk mark-read by reader r changes only messages that r did not send
\* and had not read, and emits message:read for exactly the messages the call
\* changed: as many events as UPDATEd rows, for every message and reader.
C11_BulkReadEmitsWhatItChanged ==
    \A m \in Messages, r \in Users :
        LET events == CopiesIn(Event("mark_read", "message:read", ChatOf(m), m, r), emitted)
            changes == CopiesIn(Update("mark_read", "read", m, r), written)
        IN  /\ events = changes
            /\ changes <= 1
            /\ changes = 1 => r # SenderOf(m)

\* C12: a socket never receives an event that was published to a room it is
\* not in: whatever a step adds to a socket's inbox was published to one of
\* the rooms the socket had joined (and not left) when the step was taken.
C12_NoCrossRoomDelivery ==
    [][\A s \in DOMAIN net.inbox \cap DOMAIN net'.inbox :
          \A i \in (Len(net.inbox[s]) + 1)..Len(net'.inbox[s]) :
              net'.inbox[s][i].room \in rooms[s]]_vars

\* a socket that is in one room only has received an event, and an event was
\* published that it has not received
C12_Witness ==
    \E s \in DOMAIN net.inbox :
        /\ Cardinality(rooms[s]) = 1
        /\ Len(net.inbox[s]) >= 1
        /\ net.count > Len(net.inbox[s])

SameRecipient(m, u1, u2) == m \in DOMAIN direct_messages \/ u1 = u2

\* C14: a message is marked read for a recipient only after it was marked
\* delivered for that recipient, and message:read is emitted only after
\* message:delivered: every UPDATE of read follows an UPDATE of delivered, and
\* every message:read event follows a message:delivered event, of the same
\* message and recipient.
C14_DeliveredBeforeRead ==
    /\ \A w \in BagToSet(written) :
          w.field = "read" =>
              \E w2 \in BagToSet(written) :
                  /\ w2.field = "delivered"
                  /\ w2.msg = w.msg
                  /\ SameRecipient(w.msg, w.user, w2.user)
    /\ \A e \in BagToSet(emitted) :
          e.event = "message:read" =>
              \E e2 \in BagToSet(emitted) :
                  /\ e2.event = "message:delivered"
                  /\ e2.msg = e.msg
                  /\ SameRecipient(e.msg, e.user, e2.user)

\* every event that was emitted follows a confirmed UPDATE of the same column
\* of the same message (and recipient)
EventsFollowWrites ==
    \A e \in BagToSet(emitted) :
        \E w \in BagToSet(written) :
            /\ w.msg = e.msg
            /\ "message:" \o w.field = e.event
            /\ SameRecipient(e.msg, e.user, w.user)

\* C15: message:delivered and message:read are broadcast only after a
\* confirmed persisted change; a step in which an UPDATE is rejected emits
\* nothing, delivers nothing and leaves the persisted delivery/read state as
\* it was.
C15_NoBroadcastOfFailedWrite ==
    [][/\ failed' # failed =>
            /\ emitted' = emitted
            /\ net' = net
            /\ written' = written
            /\ direct_messages' = direct_messages
            /\ group_messages' = group_messages
       /\ EventsFollowWrites']_vars

\* the UPDATE of a persisted message was rejected, after another UPDATE had
\* been confirmed and announced
C15_Witness ==
    /\ \E f \in failed : f.msg \in Messages \/ f.origin = "mark_read"
    /\ emitted # EmptyBag

\* C16: a handshake whose token is missing, does not verify or names no
\* existing user is refused, and a refused handshake registers nothing: no
\* socket (hence no handler), no connectedUsers entry, no user:online, no sweep.
C16_RefusedBeforeRegistration ==
    [][handshake' # handshake =>
          /\ (\/ handshake'.token = NoToken
              \/ handshake'.token.sig # "good"
              \/ handshake'.token.userId \notin Users)
             => handshake'.outcome = "refused"
          /\ handshake'.outcome = "refused"
             => UNCHANGED <<sockets, connectedUsers, rooms, broadcast, tasks, net>>]_vars

\* a handshake was refused while another user is connected
C16_Witness ==
    /\ handshake.outcome = "refused"
    /\ DOMAIN sockets # {}

\* C17: what a socket asks for a chat its user is no participant of is
\* aborted: no socket is in the room of a chat of which its user is no
\* participant, and no join_chat sweep or message:read of a user changes or
\* announces the state of a message of a chat the user is no participant of.
C17_NonParticipantAborted ==
    /\ \A s \in DOMAIN sockets :
          \A c \in rooms[s] \cap ChatIds : isParticipant(c, sockets[s].user)
    /\ \A w \in BagToSet(written) :
          w.origin \in {"join_chat", "message:read"}
              => isParticipant(ChatOf(w.msg), w.user)
    /\ \A e \in BagToSet(emitted) :
          e.origin \in {"join_chat", "message:read"}
              => isParticipant(e.room, e.user)

\* C18: an operation on an id that names no chat (join_chat, bulk mark-read)
\* or no message (message:read, message:delivered) has no effect: no socket is
\* in the room of an id that names no chat, and no UPDATE and no event names a
\* message that does not exist.
C18_UnknownIdNoEffect ==
    /\ \A s \in DOMAIN sockets : rooms[s] \subseteq ChatIds
    /\ \A w \in BagToSet(written) : w.msg \in Messages
    /\ \A e \in BagToSet(emitted) : e.msg \in Messages /\ e.room \in ChatIds

\* C20: join_chat for a room the socket is in already is a no-op, as is
\* leave_chat for a room it is not in: the sweep of such a join_chat changes
\* no message row and emits nothing, and neither call changes the rooms.
C20_RejoinIsNoOp ==
    [][\A t \in BagToSet(tasks) :
          (t.kind = "join_chat" /\ t.rejoin /\ CopiesIn(t, tasks') < CopiesIn(t, tasks))
              => /\ direct_messages' = direct_messages
                 /\ group_messages' = group_messages
                 /\ written' = written
                 /\ emitted' = emitted]_vars

\* C21: a disconnect of a connection that the registry does not hold (the
\* user's entry is absent, or it records another socket id) changes nothing:
\* the user's registry entry is left as it was and no user:offline is
\* broadcast.
C21_UnheldDisconnectIsNoOp ==
    [][\A s \in DOMAIN sockets \ DOMAIN sockets' :
          LET u == sockets[s].user IN
          (u \notin DOMAIN connectedUsers \/ connectedUsers[u].socketId # s)
              => /\ connectedUsers' = connectedUsers
                 /\ broadcast' # Offline(u)]_vars

\* getUserSocket(userId, io): the socket the registry names, if it is connected
getUserSocket(userId) ==
    IF userId \in DOMAIN connectedUsers
          /\ connectedUsers[userId].socketId \in DOMAIN sockets
    THEN connectedUsers[userId].socketId
    ELSE 0

\* C25: whenever connectedUsers holds an entry for user u, the socketId stored
\* in it is the id of a connected socket authenticated as u, so that
\* getUserSocket(u) resolves to a live socket of u, for any interleaving of
\* connections and disconnects of u's sockets.
C25_RegistryHoldsLiveSocket ==
    \A u \in DOMAIN connectedUsers :
        /\ connectedUsers[u].socketId \in DOMAIN sockets
        /\ sockets[connectedUsers[u].socketId].user = u
        /\ getUserSocket(u) = connectedUsers[u].socketId

\* a user has two connected sockets and the entry names the one with the
\* lower id: the user connected twice, the first socket disconnected, and the
\* user connected again
C25_Witness ==
    \E u \in DOMAIN connectedUsers :
        /\ Cardinality(LiveSockets(u)) = 2
        /\ \A s \in LiveSockets(u) : connectedUsers[u].socketId <= s

\* C23: on a user's first connection user:online is sent to every other
\* connected socket, whatever rooms it is in, and not to the connecting socket;
\* when a user's last connection disconnects user:offline is sent to every
\* socket that remains connected, whatever rooms it is in.
C23_PresenceToAllOthers ==
    [][\A u \in Users :
          /\ (LiveSockets(u) = {} /\ LiveSockets(u)' # {})
             => /\ broadcast' = Online(u)
                /\ audience' = DOMAIN sockets
                /\ audience' \cap (DOMAIN sockets' \ DOMAIN sockets) = {}
          /\ (LiveSockets(u) # {} /\ LiveSockets(u)' = {})
             => /\ broadcast' = Offline(u)
                /\ audience' = DOMAIN sockets']_vars

\* user:online of a first connection went to a socket that is in a room, from
\* a socket that is in none
C23_Witness ==
    /\ broadcast.event = "user:online"
    /\ Cardinality(LiveSockets(broadcast.userId)) = 1
    /\ \E s \in audience : s \in DOMAIN sockets /\ rooms[s] # {}
    /\ \E s \in DOMAIN sockets \ audience : rooms[s] = {}

\* C26: every id in a group message's delivered_to or read_by is the id of a
\* participant of the message's group chat, and the delivered or read flag of
\* a direct message is set only on behalf of the chat's other participant;
\* join_chat, message:read and message:delivered of a connection of a user who
\* is no participant never change these fields.
C26_OnlyParticipantsMark ==
    /\ \A m \in DOMAIN group_messages :
          Range(group_messages[m].delivered_to) \cup Range(group_messages[m].read_by)
              \subseteq group_chat_participants[group_messages[m].group_chat_id]
    /\ \A w \in BagToSet(written) :
          w.msg \in DOMAIN direct_messages => w.user = Recipient(w.msg)

\* C27: a socket in the room of a conversation receives new_message only if
\* the message it carries was persisted in that conversation and the emitting
\* connection belongs to a participant of it: whatever new_message a step adds
\* to a socket's inbox names a persisted message of the room's chat, and some
\* other connected socket belongs to a participant of that chat.
C27_OnlyPersistedMessagesRelayed ==
    [][\A s \in DOMAIN net.inbox \cap DOMAIN net'.inbox :
          \A i \in (Len(net.inbox[s]) + 1)..Len(net'.inbox[s]) :
              LET e == net'.inbox[s][i] IN
              e.event = "new_message" =>
                  /\ e.msg \in Messages
                  /\ ChatOf(e.msg) = e.room
                  /\ \E x \in DOMAIN sockets \ {s} : isParticipant(e.room, sockets[x].user)]_vars

\* C28: at most one direct chat exists per unordered pair of users, also when
\* two POST /chats for the same pair, of either user, interleave between the
\* existence check and the INSERT.
C28_OneDirectChatPerPair ==
    \A r1, r2 \in DirectChatRows :
        {r1.user1_id, r1.user2_id} = {r2.user1_id, r2.user2_id} => r1 = r2

\* C24: the client emits new_message for a message only after the POST that
\* persists it has returned successfully, and emits none when the POST fails:
\* a thunk's new_message is emitted in the step in which its pending POST
\* returns with success, and a thunk that has emitted is fulfilled.
C24_EmitAfterSuccessfulPost ==
    [][\A i \in DOMAIN thunks' :
          /\ thunks'[i].emitted => thunks'[i].status = "fulfilled"
          /\ (thunks'[i].emitted /\ ~(i \in DOMAIN thunks /\ thunks[i].emitted))
             => /\ i \in DOMAIN thunks
                /\ thunks[i].status = "pending"]_vars

\* a POST has returned with success while a socket was held: new_message was
\* emitted for its message
C24_Witness ==
    \E i \in DOMAIN thunks : thunks[i].status = "fulfilled" /\ thunks[i].emitted

\* C29: the SocketService holds at most one live socket: every socket it has
\* created, the one it holds excepted, is disconnected, after any sequence of
\* connect() and disconnect(); after disconnect() it holds none.
C29_OneLiveSocket ==
    /\ \A k \in DOMAIN service.made :
          service.made[k] = "open" => k = service.socket
    /\ service.socket # 0 => service.socket \in DOMAIN service.made

\* connect() was called while a socket was held: the service holds the second
\* socket it created
C29_Witness ==
    /\ Len(service.made) >= 2
    /\ service.socket = Len(service.made)
    /\ service.made[1] = "closed"

\* C30: a message the local user sent has read = true in the store only after
\* a message:read for it was received or the server returned it as read; the
\* user's own markAllMessagesAsRead never sets read on a message the user sent.
C30_OwnMessageReadOnlyOnReceipt ==
    \A c \in DOMAIN store.messages :
        \A k \in DOMAIN store.messages[c] :
            LET message == store.messages[c][k] IN
            (message.sender_id = Me /\ message.read) => message.id \in store.seen

\* the socket s, of a participant who is not the sender, has received
\* new_message for the persisted message m in a room it has joined
FannedOut(s, m) ==
    /\ s \in DOMAIN sockets
    /\ m \in Messages
    /\ isParticipant(ChatOf(m), sockets[s].user)
    /\ sockets[s].user # SenderOf(m)
    /\ ChatOf(m) \in rooms[s]
    /\ \E i \in DOMAIN net.inbox[s] :
          net.inbox[s][i].event = "new_message" /\ net.inbox[s][i].msg = m

\* the message m is marked delivered for the user of socket s
MarkedDelivered(s, m) ==
    IF m \in DOMAIN direct_messages
    THEN direct_messages[m].delivered
    ELSE /\ m \in DOMAIN group_messages
         /\ s \in DOMAIN sockets
         /\ sockets[s].user \in Range(group_messages[m].delivered_to)

\* the client of socket s has reacted to the message m: it is marked read for
\* the socket's user
MarkedRead(s, m) ==
    IF m \in DOMAIN direct_messages
    THEN direct_messages[m].read
    ELSE /\ m \in DOMAIN group_messages
         /\ s \in DOMAIN sockets
         /\ sockets[s].user \in Range(group_messages[m].read_by)

\* C22: every new_message that is fanned out to a live, joined connection of a
\* recipient is eventually followed by the message being marked delivered for
\* that recipient, as long as the connection stays open (every query
\* succeeds in this specification): in particular once the recipient's client
\* has reacted to the event.
C22_FanOutLeadsToDelivered ==
    \A s \in SocketIds, m \in 1..MaxMsgs :
        (FannedOut(s, m) /\ MarkedRead(s, m))
            ~> (s \notin DOMAIN sockets \/ MarkedDelivered(s, m))

====
